---- MODULE Spec2Model ----
(***************************************************************************)
(* Model of mr-rippah (src/src/main.rs): the playlist-to-file pipeline run *)
(* by MrRippah::rip_playlist under main.  One action per await point or    *)
(* blocking call of the orchestrator; the catalog, the streaming session,  *)
(* the transcoder and the filesystem answer nondeterministically.          *)
(*                                                                         *)
(* Strings are sequences of tokens: a token is an atomic piece of text     *)
(* ("spotify", ":", "open.spotify.com", ...), so that prefix tests and     *)
(* splitting are computed, not assumed.  A release date is a sequence of   *)
(* characters, each with a byte width, because the code slices bytes.      *)
(***************************************************************************)
EXTENDS Integers, Sequences, FiniteSets, TLC

VARIABLES
    pc,            \* position of the single thread of control
    playlist_uri,  \* rip_playlist's playlist_uri: the argument, then (shadowed) the normalised URI
    uri_arg,       \* the argument normalise_playlist_uri was called with (an Option; None once
                   \* rip_playlist has moved past the value it returned)
    dirs,          \* directories present under downloads_dir
    dirs_before,   \* the directories that were present when the run started
    download_dir,  \* the directory allocated for this run (an Option)
    next_url,      \* fetch_playlist_tracks: Some(url) / None
    pages,         \* page payloads received by the running enumeration
    page_requests, \* spotify_api_request calls made by the running enumeration
    page_failed,   \* whether a page request of the enumeration returned Err
    track_ids,     \* the Vec<String> built by fetch_playlist_tracks, then iterated
    cur,           \* 1-based position of the for loop in track_ids (0 before the loop)
    metadata,      \* rip_track's metadata (an Option: None outside the stages)
    audio_file,    \* rip_track's audio_file: the persisted temporary file (an Option)
    mp3_path,      \* rip_track's mp3_path (an Option)
    temp_files,    \* temporary files persisted on disk (one id per keep())
    files,         \* output files in download_dir: path -> contents
    progress,      \* ProgressBar position (0 until ProgressBar::new, which starts it at 0)
    hist,          \* per loop position: stages run, outcome, whether logged
    fetched_playable, \* is_playable of the metadata response of the current track (an Option of it)
    acq,           \* what download_track_audio did for the current track when it is followed step
                   \* by step (an Option; None when it is taken as one step)
    tag_env,       \* what the image fetch and the tag write of the current track did (an Option)
    delays,        \* number of completed inter-track sleeps
    top_error,     \* the setup step whose error main logged, "" if none
    exit_status    \* None while running, then Some(0), Some(1) (process::exit(1)) or Some(101) (panic)

vars == << pc, playlist_uri, uri_arg, dirs, dirs_before, download_dir, next_url, pages, page_requests,
           page_failed, track_ids,
           cur, metadata, audio_file, mp3_path, temp_files, files, progress, hist,
           fetched_playable, acq, tag_env, delays, top_error, exit_status >>

----------------------------------------------------------------------------
(* Bounds of the model *)

MaxTracks == 2      \* longest enumerated track list
MaxPages == 2       \* most page requests of one enumeration
MaxEntries == 3     \* most entries (with or without a track) over all pages of one enumeration
MaxExisting == 1    \* at most base, base (1) .. base (MaxExisting - 1) exist before the run
MaxTail == 2        \* normalise_playlist_uri alone: most tokens after the canonical prefix
MaxSegments == 3    \* normalise_playlist_uri alone: most path segments of a URL
MaxSuffix == 4      \* make_unique_directory alone: any of base, base (1) .. base (MaxSuffix) may exist

(* Program constants *)

SUCCESSFUL_DOWNLOAD_DELAY_SECONDS == 5

----------------------------------------------------------------------------
(* Values *)

\* Option<T>: None is the empty sequence, Some(x) the one-element sequence.
None == << >>
Some(x) == << x >>
Unwrap(o) == o[1]

TrackIdSet == {"a", "b"}

RECURSIVE SeqsUpTo(_, _)
SeqsUpTo(S, n) ==
    IF n = 0 THEN { <<>> }
    ELSE LET shorter == SeqsUpTo(S, n - 1)
         IN  shorter \cup { Append(s, x) : s \in shorter, x \in S }

----------------------------------------------------------------------------
(* URI Resolver: MrRippah::normalise_playlist_uri *)

CanonicalPrefix == << "spotify", ":", "playlist", ":" >>
ProviderDomain == "open.spotify.com"
Schemes == {"https", "http"}

Inputs ==
    { << "spotify", ":", "playlist", ":", "X" >>,
      << "https", ":", "//", "open.spotify.com", "/", "playlist", "/", "X" >>,
      << "https", ":", "//", "open.spotify.com", "/", "playlist", "/", "X", "?", "si" >>,
      << "https", ":", "//", "open.spotify.com", "/", "playlist" >>,
      << "https", ":", "//", "open.spotify.com", "/", "album", "/", "X" >>,
      << "https", ":", "//", "example.com", "/", "playlist", "/", "X" >>,
      << "X" >> }

StartsWith(s, prefix) ==
    /\ Len(s) >= Len(prefix)
    /\ SubSeq(s, 1, Len(prefix)) = prefix

\* Index of the first token of s at or after position i that is in stop, else Len(s) + 1.
RECURSIVE FirstIn(_, _, _)
FirstIn(s, i, stop) ==
    IF i > Len(s) THEN Len(s) + 1
    ELSE IF s[i] \in stop THEN i
    ELSE FirstIn(s, i + 1, stop)

\* str::split: the pieces of s between occurrences of sep (at least one piece).
RECURSIVE Split(_, _)
Split(s, sep) ==
    LET k == FirstIn(s, 1, {sep})
    IN  IF k > Len(s) THEN << s >>
        ELSE << SubSeq(s, 1, k - 1) >> \o Split(SubSeq(s, k + 1, Len(s)), sep)

\* The host parser lowercases the domain.
HostLower(host) == IF host = "OPEN.SPOTIFY.COM" THEN "open.spotify.com" ELSE host

\* The path parser drops "." segments and lets ".." remove the segment before it; when the
\* last segment is one of them the path ends in a slash (an empty last segment).
RECURSIVE RemoveDotSegments(_, _)
RemoveDotSegments(segments, acc) ==
    IF segments = << >> THEN acc
    ELSE LET segment == Head(segments)
             last == Len(segments) = 1
             kept == IF segment = << ".." >>
                     THEN IF acc = << >> THEN acc ELSE SubSeq(acc, 1, Len(acc) - 1)
                     ELSE IF segment = << "." >> THEN acc
                     ELSE Append(acc, segment)
         IN  RemoveDotSegments(Tail(segments),
                               IF last /\ segment \in { << "." >>, << ".." >> }
                               THEN Append(kept, << >>) ELSE kept)

\* Url::parse restricted to hierarchical URLs scheme://host[/path][?query][#fragment].
UrlParse(input) ==
    IF /\ Len(input) >= 4
       /\ input[1] \in Schemes
       /\ input[2] = ":"
       /\ input[3] = "//"
       /\ input[4] \notin {"/", "?", "#", ":"}
    THEN LET stop == FirstIn(input, 5, {"?", "#"})
             path == SubSeq(input, 5, stop - 1)
         IN  IF path = << >> \/ path[1] = "/"
             THEN [ ok |-> TRUE,
                    domain |-> HostLower(input[4]),
                    \* Url::path_segments: the path without its leading slash, split on slashes
                    path_segments |-> IF path = << >> THEN << << >> >>
                                      ELSE RemoveDotSegments(
                                               Split(SubSeq(path, 2, Len(path)), "/"), << >>) ]
             ELSE [ ok |-> FALSE ]
    ELSE [ ok |-> FALSE ]

InvalidReference(input) == [ ok |-> FALSE, error |-> << "Invalid Spotify playlist URI: " >> \o input ]

\* A variant that rebuilds a canonical input from the piece after its last colon.
normalise_playlist_uri_Rebuilding(input) ==
    IF StartsWith(input, CanonicalPrefix)
    THEN LET pieces == Split(input, ":")
         IN  [ ok |-> TRUE, value |-> CanonicalPrefix \o pieces[Len(pieces)] ]
    ELSE InvalidReference(input)

\* A variant that takes the last path segment of a web link as the id.
normalise_playlist_uri_LastSegment(input) ==
    IF StartsWith(input, CanonicalPrefix)
    THEN [ ok |-> TRUE, value |-> input ]
    ELSE LET url == UrlParse(input)
         IN  IF /\ url.ok
                /\ url.domain = ProviderDomain
                /\ Len(url.path_segments) >= 2
                /\ url.path_segments[1] = << "playlist" >>
             THEN [ ok |-> TRUE,
                    value |-> CanonicalPrefix \o url.path_segments[Len(url.path_segments)] ]
             ELSE InvalidReference(input)

\* A variant that accepts a playlist link of any host.
normalise_playlist_uri_AnyHost(input) ==
    IF StartsWith(input, CanonicalPrefix)
    THEN [ ok |-> TRUE, value |-> input ]
    ELSE LET url == UrlParse(input)
         IN  IF /\ url.ok
                /\ Len(url.path_segments) >= 2
                /\ url.path_segments[1] = << "playlist" >>
             THEN [ ok |-> TRUE, value |-> CanonicalPrefix \o url.path_segments[2] ]
             ELSE InvalidReference(input)

normalise_playlist_uri(input) ==
    IF StartsWith(input, CanonicalPrefix)
    THEN [ ok |-> TRUE, value |-> input ]
    ELSE LET url == UrlParse(input)
         IN  IF /\ url.ok
                /\ url.domain = ProviderDomain
                /\ Len(url.path_segments) >= 2
                /\ url.path_segments[1] = << "playlist" >>
             THEN [ ok |-> TRUE, value |-> CanonicalPrefix \o url.path_segments[2] ]
             ELSE InvalidReference(input)

\* playlist_uri.rsplit(':').next(): the piece after the last colon.
playlist_id_of(uri) ==
    LET pieces == Split(uri, ":")
    IN  pieces[Len(pieces)]

----------------------------------------------------------------------------
(* Unique Path Allocator: MrRippah::make_unique_directory *)

\* A directory under downloads_dir: base for n = 0, "base (n)" for n >= 1.
DirName(base, n) == [ base |-> base, n |-> n ]

\* The first n of base, base (1), ... exist already.
ExistingDirSets == { { DirName(<< "X" >>, k) : k \in 0 .. n - 1 } : n \in 0 .. MaxExisting }

\* for i in 1.. : the first i whose candidate does not exist.
RECURSIVE ProbeFrom(_, _, _)
ProbeFrom(base, ds, i) ==
    IF DirName(base, i) \notin ds THEN i ELSE ProbeFrom(base, ds, i + 1)

\* A variant that returns the target path whether or not it exists.
make_unique_directory_Reusing(base, ds) == DirName(base, 0)

make_unique_directory(base, ds) ==
    IF DirName(base, 0) \notin ds THEN DirName(base, 0)
    ELSE DirName(base, ProbeFrom(base, ds, 1))

----------------------------------------------------------------------------
(* Catalog API: MrRippah::spotify_api_request and the payloads it deserialises *)

\* The ways spotify_api_request returns Err: token, send, status, json.
ApiFailures ==
    { "Unable to obtain Spotify token", "Spotify API request failed",
      "Spotify API error", "Unable to parse Spotify API response" }

\* PlaylistItem: track None, track without id, or track with id.
NoTrackItem == [ track |-> None ]
NoIdItem == [ track |-> Some([ id |-> None ]) ]
TrackItem(id) == [ track |-> Some([ id |-> Some(id) ]) ]
PlaylistItems == { NoTrackItem, NoIdItem } \cup { TrackItem(id) : id \in TrackIdSet }

\* Option<String> next: None or the URL of a further page.
NextUrls == { None, Some([ url |-> "next" ]) }

PlaylistTracksResponses ==
    { [ items |-> its, next |-> nx ] : its \in SeqsUpTo(PlaylistItems, MaxEntries), nx \in NextUrls }

RECURSIVE EntriesIn(_)
EntriesIn(ps) == IF ps = << >> THEN 0 ELSE Len(Head(ps).items) + EntriesIn(Tail(ps))

\* A variant of PushIds that inserts each id at the front of the Vec.
RECURSIVE PushIds_AtFront(_, _)
PushIds_AtFront(ids, items) ==
    IF items = << >> THEN ids
    ELSE LET item == Head(items)
             pushed == IF item.track # None
                       THEN IF Unwrap(item.track).id # None
                            THEN << Unwrap(Unwrap(item.track).id) >> \o ids
                            ELSE ids
                       ELSE ids
         IN  PushIds_AtFront(pushed, Tail(items))

\* The inner for loop of fetch_playlist_tracks: push the id of every item that has one.
RECURSIVE PushIds(_, _)
PushIds(ids, items) ==
    IF items = << >> THEN ids
    ELSE LET item == Head(items)
             pushed == IF item.track # None
                       THEN IF Unwrap(item.track).id # None
                            THEN Append(ids, Unwrap(Unwrap(item.track).id))
                            ELSE ids
                       ELSE ids
         IN  PushIds(pushed, Tail(items))

\* The first request URL, formatted from the playlist id.
FirstPageUrl(playlist_id) == Some([ url |-> playlist_id ])

----------------------------------------------------------------------------
(* Track metadata and the pure parts of the per-track stages *)


Digits == << "0", "1", "2", "3", "4", "5", "6", "7", "8", "9" >>
IsDigit(c) == \E k \in 1 .. Len(Digits) : Digits[k] = c
DigitVal(c) == (CHOOSE k \in 1 .. Len(Digits) : Digits[k] = c) - 1

\* UTF-8 width of a character.
ByteLen(c) == IF c = "e_acute" THEN 2 ELSE 1

ReleaseDates ==
    { << "1", "9", "9", "9", "-", "0", "7" >>,
      << "1", "9", "9" >>,
      << "n", "o", "n", "e" >>,
      << "9", "9", "9", "e_acute" >> }

RECURSIVE ByteLength(_)
ByteLength(s) == IF s = << >> THEN 0 ELSE ByteLen(Head(s)) + ByteLength(Tail(s))

\* Number of leading characters of s that make up exactly n bytes, or -1 when
\* n is past the end or inside a character (the slice panics).
RECURSIVE CharsForBytes(_, _)
CharsForBytes(s, n) ==
    IF n = 0 THEN 0
    ELSE IF s = << >> \/ ByteLen(Head(s)) > n THEN -1
    ELSE LET rest == CharsForBytes(Tail(s), n - ByteLen(Head(s)))
         IN  IF rest = -1 THEN -1 ELSE rest + 1

\* release_date[0..4]: Some(slice), or None where the code panics.
SliceFirstFour(s) ==
    LET k == CharsForBytes(s, 4)
    IN  IF k = -1 THEN None ELSE Some(SubSeq(s, 1, k))

RECURSIVE DigitsValue(_, _)
DigitsValue(s, acc) ==
    IF s = << >> THEN acc ELSE DigitsValue(Tail(s), 10 * acc + DigitVal(Head(s)))

\* str::parse::<i32>().unwrap_or_default() on at most four characters.
ParseI32OrDefault(s) ==
    LET signed == s # << >> /\ Head(s) \in {"+", "-"}
        body == IF signed THEN Tail(s) ELSE s
    IN  IF body # << >> /\ \A k \in 1 .. Len(body) : IsDigit(body[k])
        THEN IF signed /\ Head(s) = "-" THEN 0 - DigitsValue(body, 0) ELSE DigitsValue(body, 0)
        ELSE 0

AlbumArtistLists == { << >>, << "AA" >> }

TrackMetadatas ==
    [ name : { "Song" },
      is_playable : { Some(TRUE), Some(FALSE), None },
      disc_number : { 1 },
      track_number : { 1 },
      album_name : { "Alb" },
      release_date : ReleaseDates,
      images : { << >>, << "img" >> },
      album_artists : AlbumArtistLists ]

\* Metadata responses for the tracks of albums: every track is playable and well dated, and
\* names, numbers, discs and album artists vary.
AlbumTrackMetadatas ==
    [ name : { "Song", "Tune" },
      is_playable : { Some(TRUE) },
      disc_number : { 1, 2 },
      track_number : { 1, 2 },
      album_name : { "Alb" },
      release_date : { << "1", "9", "9", "9", "-", "0", "7" >> },
      images : { << >> },
      album_artists : { << >>, << "AA" >>, << "AA", "BB" >>, << "BB" >> } ]

\* A variant of TrackPath with a directory per disc.
TrackPath_PerDisc(dir, md) ==
    << dir,
       IF md.album_artists # << >> THEN Head(md.album_artists) ELSE "Unknown Artist",
       md.album_name,
       md.disc_number * 100 + md.track_number,
       md.name >>

\* convert_to_mp3: download_dir/artist/album/"NN - name.mp3"
TrackPath(dir, md) ==
    << dir,
       IF md.album_artists # << >> THEN Head(md.album_artists) ELSE "Unknown Artist",
       md.album_name,
       md.track_number,
       md.name >>

\* A variant of the ranking that tries the lowest bitrate first.
FormatRanking_Ascending == << "OGG_VORBIS_96", "OGG_VORBIS_160", "OGG_VORBIS_320" >>

\* download_track_audio: the first format of the ranking the track has a file for.

FormatRanking == << "OGG_VORBIS_320", "OGG_VORBIS_160", "OGG_VORBIS_96" >>
AudioFileFormats == { "OGG_VORBIS_320", "OGG_VORBIS_160", "OGG_VORBIS_96", "MP3_320" }

RECURSIVE FindFormat(_, _)
FindFormat(ranking, available) ==
    IF ranking = << >> THEN None
    ELSE IF Head(ranking) \in available THEN Some(Head(ranking))
    ELSE FindFormat(Tail(ranking), available)

----------------------------------------------------------------------------
(* Initial state: MrRippah::new has returned, main is about to call rip_playlist *)

Stages == << "metadata", "acquire", "transcode", "tag" >>

\* What is recorded about one loop position.
BlankHist == [ stages |-> << >>, outcome |-> "none", logged |-> FALSE ]

Init ==
    /\ pc = "resolve"
    /\ playlist_uri \in Inputs
    /\ uri_arg = None
    /\ dirs \in ExistingDirSets
    /\ dirs_before = dirs
    /\ download_dir = None
    /\ next_url = None
    /\ pages = << >>
    /\ page_requests = 0
    /\ page_failed = FALSE
    /\ track_ids = << >>
    /\ cur = 0
    /\ metadata = None
    /\ audio_file = None
    /\ mp3_path = None
    /\ temp_files = {}
    /\ files = << >>
    /\ progress = 0
    /\ hist = << >>
    /\ fetched_playable = None
    /\ acq = None
    /\ tag_env = None
    /\ delays = 0
    /\ top_error = ""
    /\ exit_status = None

----------------------------------------------------------------------------
(* One-time setup: rip_playlist lines 225-235, and main's handling of its error *)

setup_vars == << dirs, dirs_before, download_dir, next_url, pages, page_requests, page_failed,
                track_ids >>
loop_vars == << cur, metadata, audio_file, mp3_path, temp_files, files, progress, hist,
               fetched_playable, acq, tag_env, delays >>

\* A variant of Fatal that logs the error and returns Ok from main.
Fatal_Swallowed(step) ==
    /\ top_error' = step
    /\ exit_status' = Some(0)
    /\ pc' = "done"

\* main: if let Err(error) = app.rip_playlist(..) { error!(..); std::process::exit(1) }
Fatal(step) ==
    /\ top_error' = step
    /\ exit_status' = Some(1)
    /\ pc' = "exited"

Resolve ==
    /\ pc = "resolve"
    /\ uri_arg' = Some(playlist_uri)
    /\ LET r == normalise_playlist_uri(playlist_uri)
       IN  IF r.ok
           THEN /\ playlist_uri' = r.value
                /\ pc' = "allocate"
                /\ UNCHANGED << top_error, exit_status >>
           ELSE /\ Fatal("resolve")
                /\ UNCHANGED playlist_uri
    /\ UNCHANGED << setup_vars, loop_vars >>

\* make_unique_directory, then the first URL of fetch_playlist_tracks.
Allocate ==
    /\ pc = "allocate"
    /\ LET playlist_id == playlist_id_of(playlist_uri)
           candidate == make_unique_directory(playlist_id, dirs)
       IN  \E created \in BOOLEAN :
               IF created
               THEN /\ dirs' = dirs \cup { candidate }
                    /\ download_dir' = Some(candidate)
                    /\ next_url' = FirstPageUrl(playlist_id)
                    /\ pc' = "enumerate"
                    /\ UNCHANGED << top_error, exit_status >>
               ELSE /\ Fatal("allocate")
                    /\ UNCHANGED << dirs, download_dir, next_url >>
    /\ uri_arg' = None
    /\ UNCHANGED << playlist_uri, dirs_before, pages, page_requests, page_failed, track_ids,
                    loop_vars >>

\* A variant of FetchPage that also leaves the loop after a page without entries.
FetchPage_StopsOnEmptyPage ==
    /\ pc = "enumerate"
    /\ next_url # None
    /\ Len(pages) < MaxPages
    /\ \E payload \in PlaylistTracksResponses :
           /\ EntriesIn(pages) + Len(payload.items) <= MaxEntries
           /\ Len(PushIds(track_ids, payload.items)) <= MaxTracks
           /\ pages' = Append(pages, payload)
           /\ page_requests' = page_requests + 1
           /\ track_ids' = PushIds(track_ids, payload.items)
           /\ next_url' = payload.next
           /\ pc' = IF payload.next = None \/ payload.items = << >>
                    THEN "enumerated" ELSE "enumerate"
    /\ UNCHANGED << playlist_uri, uri_arg, dirs, dirs_before, download_dir, page_failed, loop_vars,
                    top_error, exit_status >>

\* One iteration of the while loop of fetch_playlist_tracks whose request succeeds.
FetchPage ==
    /\ pc = "enumerate"
    /\ next_url # None
    /\ Len(pages) < MaxPages
    /\ \E payload \in PlaylistTracksResponses :
           /\ EntriesIn(pages) + Len(payload.items) <= MaxEntries
           /\ Len(PushIds(track_ids, payload.items)) <= MaxTracks
           /\ pages' = Append(pages, payload)
           /\ page_requests' = page_requests + 1
           /\ track_ids' = PushIds(track_ids, payload.items)
           /\ next_url' = payload.next
           /\ pc' = IF payload.next = None THEN "enumerated" ELSE "enumerate"
    /\ UNCHANGED << playlist_uri, uri_arg, dirs, dirs_before, download_dir, page_failed, loop_vars,
                    top_error, exit_status >>

\* A variant of FetchPageFails that breaks out of the loop and returns the ids so far.
FetchPageFails_Partial ==
    /\ pc = "enumerate"
    /\ next_url # None
    /\ Len(pages) < MaxPages
    /\ page_failed' = TRUE
    /\ page_requests' = page_requests + 1
    /\ next_url' = None
    /\ pc' = "enumerated"
    /\ UNCHANGED << playlist_uri, uri_arg, dirs, dirs_before, download_dir, pages, track_ids,
                    loop_vars, top_error, exit_status >>

\* One iteration whose request fails: the ? returns the error, the Vec is dropped.
FetchPageFails ==
    /\ pc = "enumerate"
    /\ next_url # None
    /\ Len(pages) < MaxPages
    /\ \E failure \in ApiFailures :
           /\ page_failed' = TRUE
           /\ page_requests' = page_requests + 1
           /\ track_ids' = << >>
           /\ next_url' = None
           /\ Fatal("enumerate")
    /\ UNCHANGED << playlist_uri, uri_arg, dirs, dirs_before, download_dir, pages, loop_vars >>

----------------------------------------------------------------------------
(* The per-track loop: rip_playlist lines 237-254 and rip_track *)

\* for track_id in track_ids: the next position, or progress.finish(); Ok(()) and main's Ok(()).
LoopHead(position) ==
    IF position < Len(track_ids)
    THEN /\ cur' = position + 1
         /\ pc' = "metadata"
         /\ UNCHANGED exit_status
    ELSE /\ cur' = position
         /\ pc' = "done"
         /\ exit_status' = Some(0)

\* ProgressBar::new(track_ids.len()) and entry into the loop.
StartLoop ==
    /\ pc = "enumerated"
    /\ progress' = 0
    /\ hist' = [ i \in 1 .. Len(track_ids) |-> BlankHist ]
    /\ pages' = << >>
    /\ page_requests' = 0
    /\ LoopHead(0)
    /\ UNCHANGED << playlist_uri, uri_arg, dirs, dirs_before, download_dir, next_url, page_failed,
                    track_ids, metadata, audio_file, mp3_path, temp_files, files,
                    fetched_playable, acq, tag_env, delays, top_error >>

\* A variant of EndTrack that sleeps only after a track that did not fail.
EndTrack_NoSleepAfterFailure(h, outcome) ==
    /\ hist' = [ hist EXCEPT ![cur] = [ h EXCEPT !.outcome = outcome,
                                                 !.logged = (outcome = "failed") ] ]
    /\ progress' = progress + 1
    /\ metadata' = None
    /\ audio_file' = None
    /\ mp3_path' = None
    /\ IF outcome = "failed"
       THEN LoopHead(cur)
       ELSE cur' = cur /\ pc' = "delay"

\* A variant of EndTrack that advances the progress bar only for a track that did not fail.
EndTrack_IncOnSuccessOnly(h, outcome) ==
    /\ hist' = [ hist EXCEPT ![cur] = [ h EXCEPT !.outcome = outcome,
                                                 !.logged = (outcome = "failed") ] ]
    /\ progress' = IF outcome = "failed" THEN progress ELSE progress + 1
    /\ cur' = cur
    /\ metadata' = None
    /\ audio_file' = None
    /\ mp3_path' = None
    /\ pc' = "delay"

\* A variant of EndTrack that runs a failed track again from its first stage.
EndTrack_RetryFailed(h, outcome) ==
    IF outcome = "failed"
    THEN /\ hist' = [ hist EXCEPT ![cur] = h ]
         /\ pc' = "metadata"
         /\ cur' = cur
         /\ metadata' = None
         /\ audio_file' = None
         /\ mp3_path' = None
         /\ UNCHANGED progress
    ELSE /\ hist' = [ hist EXCEPT ![cur] = [ h EXCEPT !.outcome = outcome ] ]
         /\ progress' = progress + 1
         /\ cur' = cur
         /\ metadata' = None
         /\ audio_file' = None
         /\ mp3_path' = None
         /\ pc' = "delay"

\* rip_track returned: log the error if any, progress.inc(1), then the sleep starts.
EndTrack(h, outcome) ==
    /\ hist' = [ hist EXCEPT ![cur] = [ h EXCEPT !.outcome = outcome,
                                                 !.logged = (outcome = "failed") ] ]
    /\ progress' = progress + 1
    /\ cur' = cur
    /\ metadata' = None
    /\ audio_file' = None
    /\ mp3_path' = None
    /\ pc' = "delay"

\* A stage of the current track starts.
Started(stage) == [ hist[cur] EXCEPT !.stages = Append(@, stage) ]

\* A variant of IsUnplayable that also skips a track whose flag is absent.
IsUnplayable_UnlessTrue(md) == md.is_playable # Some(TRUE)

\* matches!(metadata.is_playable, Some(false))
IsUnplayable(md) == md.is_playable = Some(FALSE)

\* get_track_metadata, then the skip test of rip_track.
FetchMetadataOf(responses) ==
    /\ pc = "metadata"
    /\ \E md \in responses :
           /\ fetched_playable' = Some(md.is_playable)
           /\ IF IsUnplayable(md)
              THEN EndTrack(Started("metadata"), "skipped")
              ELSE /\ metadata' = Some(md)
                   /\ hist' = [ hist EXCEPT ![cur] = Started("metadata") ]
                   /\ pc' = "acquire"
                   /\ UNCHANGED << cur, audio_file, mp3_path, progress >>
    /\ UNCHANGED << playlist_uri, uri_arg, acq, setup_vars, temp_files, files, tag_env, delays,
                    top_error, exit_status >>

FetchMetadata == FetchMetadataOf(TrackMetadatas)

FetchMetadataFails ==
    /\ pc = "metadata"
    /\ \E failure \in ApiFailures : EndTrack(Started("metadata"), "failed")
    /\ UNCHANGED << playlist_uri, uri_arg, acq, setup_vars, temp_files, files, fetched_playable,
                    tag_env, delays, top_error, exit_status >>

\* download_track_audio fails before it looks at the track's files
\* (SpotifyId::from_base62, Track::get).
AcquireLookupFails ==
    /\ pc = "acquire"
    /\ \E failure \in { "Invalid track identifier", "Unable to fetch track metadata" } :
           EndTrack(Started("acquire"), "failed")
    /\ UNCHANGED << playlist_uri, uri_arg, acq, setup_vars, temp_files, files, fetched_playable,
                    tag_env, delays, top_error, exit_status >>

\* download_track_audio: none of the ranked formats has a file (find_map is None).
AcquireNoSource ==
    /\ pc = "acquire"
    /\ \E available \in SUBSET AudioFileFormats :
           /\ FindFormat(FormatRanking, available) = None
           /\ EndTrack(Started("acquire"), "failed")
    /\ UNCHANGED << playlist_uri, uri_arg, acq, setup_vars, temp_files, files, fetched_playable,
                    tag_env, delays, top_error, exit_status >>

\* What can go wrong after a format was found: open, temp file creation, copy, keep.
StreamFailures ==
    { "Unable to fetch Spotify audio file", "Unable to create temporary file",
      "Unable to write audio to disk", "Unable to persist downloaded audio" }

\* download_track_audio fails after the format selection; a NamedTempFile that
\* is not kept is removed when dropped.
AcquireStreamFails ==
    /\ pc = "acquire"
    /\ \E failure \in StreamFailures : EndTrack(Started("acquire"), "failed")
    /\ UNCHANGED << playlist_uri, uri_arg, acq, setup_vars, temp_files, files, fetched_playable,
                    tag_env, delays, top_error, exit_status >>

\* download_track_audio succeeds.  A failed key request only leaves key None.
Acquire ==
    /\ pc = "acquire"
    /\ \E available \in SUBSET AudioFileFormats, key_ok \in BOOLEAN :
           LET format == FindFormat(FormatRanking, available)
               tmp == Cardinality(temp_files) + 1
           IN  /\ format # None
               /\ temp_files' = temp_files \cup { tmp }
               /\ audio_file' = Some(tmp)
    /\ hist' = [ hist EXCEPT ![cur] = Started("acquire") ]
    /\ pc' = "transcode"
    /\ UNCHANGED << playlist_uri, uri_arg, acq, setup_vars, cur, metadata, mp3_path, progress, files,
                    fetched_playable, tag_env, delays, top_error, exit_status >>

\* An output file as the transcoder leaves it: no tag yet.
Untagged(kind) == [ owner |-> cur, kind |-> kind, tag |-> None ]

\* convert_to_mp3 fails before ffmpeg runs.
TranscodeFails ==
    /\ pc = "transcode"
    /\ \E failure \in { "Unable to create track directory structure",
                        "Invalid temporary audio path", "Invalid track path",
                        "Failed to spawn ffmpeg" } :
           EndTrack(Started("transcode"), "failed")
    /\ UNCHANGED << playlist_uri, uri_arg, acq, setup_vars, temp_files, files, fetched_playable,
                    tag_env, delays, top_error, exit_status >>

\* ffmpeg -y exits non-zero: it may or may not have started writing the output.
TranscodeExitsNonZero ==
    /\ pc = "transcode"
    /\ \E wrote \in BOOLEAN :
           files' = IF wrote
                    THEN (TrackPath(Unwrap(download_dir), Unwrap(metadata)) :> Untagged("partial")) @@ files
                    ELSE files
    /\ EndTrack(Started("transcode"), "failed")
    /\ UNCHANGED << playlist_uri, uri_arg, acq, setup_vars, temp_files, fetched_playable, tag_env, delays,
                    top_error, exit_status >>

\* A variant of Transcode that removes the temporary audio file once it is converted.
Transcode_RemovesTemp ==
    /\ pc = "transcode"
    /\ LET track_path == TrackPath(Unwrap(download_dir), Unwrap(metadata))
       IN  /\ files' = (track_path :> Untagged("mp3")) @@ files
           /\ mp3_path' = Some(track_path)
    /\ temp_files' = temp_files \ { Unwrap(audio_file) }
    /\ hist' = [ hist EXCEPT ![cur] = Started("transcode") ]
    /\ pc' = "tag"
    /\ UNCHANGED << playlist_uri, uri_arg, acq, setup_vars, cur, metadata, audio_file,
                    progress, fetched_playable, tag_env, delays, top_error, exit_status >>

\* ffmpeg -y exits zero: the file at track_path is (over)written.
Transcode ==
    /\ pc = "transcode"
    /\ LET track_path == TrackPath(Unwrap(download_dir), Unwrap(metadata))
       IN  /\ files' = (track_path :> Untagged("mp3")) @@ files
           /\ mp3_path' = Some(track_path)
    /\ hist' = [ hist EXCEPT ![cur] = Started("transcode") ]
    /\ pc' = "tag"
    /\ UNCHANGED << playlist_uri, uri_arg, acq, setup_vars, cur, metadata, audio_file, temp_files,
                    progress, fetched_playable, tag_env, delays, top_error, exit_status >>

\* write_id3_tags: metadata.album.release_date[0..4] panics; nothing catches it.
TagPanics ==
    /\ pc = "tag"
    /\ SliceFirstFour(Unwrap(metadata).release_date) = None
    /\ hist' = [ hist EXCEPT ![cur] = Started("tag") ]
    /\ pc' = "panicked"
    /\ exit_status' = Some(101)
    /\ UNCHANGED << playlist_uri, uri_arg, acq, setup_vars, cur, metadata, audio_file, mp3_path,
                    temp_files, files, progress, fetched_playable, tag_env, delays,
                    top_error >>

\* The fetch of the first cover image: send()? fails, a non-success status,
\* bytes()? fails, or the picture is read.
ArtOutcomes == { "send_error", "bad_status", "body_error", "ok" }

\* Whether the image fetch returns Err from write_id3_tags.
ArtFailsTrack(art) == art \in { "send_error", "body_error" }

\* The tag set written for md: the year, whether a picture frame was added, the TXXX frame.
BuildTag(md, track_id, art) ==
    [ year |-> ParseI32OrDefault(Unwrap(SliceFirstFour(md.release_date))),
      picture |-> (art = "ok"),
      disc |-> md.disc_number,
      track |-> track_id ]

\* write_id3_tags once the year slice exists: the image fetch when the album has
\* an image, then tag.write_to_path.
Tag ==
    /\ pc = "tag"
    /\ SliceFirstFour(Unwrap(metadata).release_date) # None
    /\ \E art \in IF Unwrap(metadata).images # << >> THEN ArtOutcomes ELSE { "no_image" },
          write_ok \in BOOLEAN :
           /\ tag_env' = Some([ art |-> art, write_ok |-> write_ok ])
           /\ IF ArtFailsTrack(art) \/ ~write_ok
              THEN /\ EndTrack(Started("tag"), "failed")
                   /\ UNCHANGED files
              ELSE /\ files' = [ files EXCEPT ![Unwrap(mp3_path)].tag =
                                   Some(BuildTag(Unwrap(metadata), track_ids[cur], art)) ]
                   /\ EndTrack(Started("tag"), "ok")
    /\ UNCHANGED << playlist_uri, uri_arg, acq, setup_vars, temp_files, fetched_playable, delays,
                    top_error, exit_status >>

\* sleep(SUCCESSFUL_DOWNLOAD_DELAY_SECONDS) completes, then the loop head.
Delay ==
    /\ pc = "delay"
    /\ delays' = delays + 1
    /\ fetched_playable' = None
    /\ acq' = None
    /\ tag_env' = None
    /\ LoopHead(cur)
    /\ UNCHANGED << playlist_uri, uri_arg, setup_vars, metadata, audio_file, mp3_path, temp_files,
                    files, progress, hist, top_error >>

Next ==
    \/ Resolve
    \/ Allocate
    \/ FetchPage
    \/ FetchPageFails
    \/ StartLoop
    \/ FetchMetadata
    \/ FetchMetadataFails
    \/ AcquireLookupFails
    \/ AcquireNoSource
    \/ AcquireStreamFails
    \/ Acquire
    \/ TranscodeFails
    \/ TranscodeExitsNonZero
    \/ Transcode
    \/ TagPanics
    \/ Tag
    \/ Delay

Spec == Init /\ [][Next]_vars

----------------------------------------------------------------------------
(* Single operations, started from the states in which rip_playlist calls them *)

\* No track has been processed and main has not reported anything.
NothingRipped ==
    /\ cur = 0
    /\ metadata = None
    /\ audio_file = None
    /\ mp3_path = None
    /\ temp_files = {}
    /\ files = << >>
    /\ progress = 0
    /\ hist = << >>
    /\ fetched_playable = None
    /\ acq = None
    /\ tag_env = None
    /\ delays = 0
    /\ top_error = ""
    /\ exit_status = None

\* Directories that may be present under downloads_dir when make_unique_directory is called:
\* any of base, base (1), ..., with gaps, and a directory of another playlist.
AllocatorDirSets ==
    SUBSET ({ DirName(<< "X" >>, k) : k \in 0 .. MaxSuffix } \cup { DirName(<< "Y" >>, 0) })

\* rip_playlist at line 232, with a normalised URI.
InitAllocate ==
    /\ pc = "allocate"
    /\ playlist_uri = CanonicalPrefix \o << "X" >>
    /\ uri_arg = Some(playlist_uri)
    /\ dirs \in AllocatorDirSets
    /\ dirs_before = dirs
    /\ download_dir = None
    /\ next_url = None
    /\ pages = << >>
    /\ page_requests = 0
    /\ page_failed = FALSE
    /\ track_ids = << >>
    /\ NothingRipped

SpecAllocate == InitAllocate /\ [][Allocate]_vars

\* The text of a path with the given segments: a slash before each.
RECURSIVE PathOf(_)
PathOf(segments) ==
    IF segments = << >> THEN << >>
    ELSE << "/" >> \o Head(segments) \o PathOf(Tail(segments))

\* Command-line arguments given to normalise_playlist_uri: the canonical prefix followed by
\* any tokens, URLs of any host, path and query or fragment, and text that is neither.
ResolverInputs ==
    { CanonicalPrefix \o tail : tail \in SeqsUpTo({ "X", ":", "/" }, MaxTail) }
    \cup { << scheme, ":", "//", host >> \o PathOf(segments) \o rest :
             scheme \in { "https" },
             host \in { "open.spotify.com", "OPEN.SPOTIFY.COM", "example.com" },
             segments \in SeqsUpTo({ << "playlist" >>, << "X" >>, << "." >>, << ".." >>, << >> },
                                   MaxSegments),
             rest \in { << >>, << "?", "si" >>, << "#", "top" >> } }
    \cup { << >>, << "X" >>, << " " >> \o CanonicalPrefix \o << "X" >>,
           << "spotify", ":", "playlist" >>, << "spotify", ":", "album", ":", "X" >>,
           << "http", ":", "//", "open.spotify.com", "/", "playlist", "/", "X" >>,
           << "open.spotify.com", "/", "playlist", "/", "X" >> }

\* main at line 556: rip_playlist is called with cli.uri.
InitResolve ==
    /\ pc = "resolve"
    /\ playlist_uri \in ResolverInputs
    /\ uri_arg = None
    /\ dirs = {}
    /\ dirs_before = dirs
    /\ download_dir = None
    /\ next_url = None
    /\ pages = << >>
    /\ page_requests = 0
    /\ page_failed = FALSE
    /\ track_ids = << >>
    /\ NothingRipped

SpecResolve == InitResolve /\ [][Resolve]_vars

\* rip_playlist at line 235: the directory exists, fetch_playlist_tracks starts.
InitEnumerate ==
    /\ pc = "enumerate"
    /\ playlist_uri = CanonicalPrefix \o << "X" >>
    /\ uri_arg = None
    /\ dirs = { DirName(<< "X" >>, 0) }
    /\ dirs_before = {}
    /\ download_dir = Some(DirName(<< "X" >>, 0))
    /\ next_url = FirstPageUrl(<< "X" >>)
    /\ pages = << >>
    /\ page_requests = 0
    /\ page_failed = FALSE
    /\ track_ids = << >>
    /\ NothingRipped

\* A page request answered by a finite catalog: a playlist has at most MaxPages pages, so
\* its MaxPages-th page carries no next pointer.
FetchCatalogPage ==
    /\ FetchPage
    /\ Len(pages') = MaxPages => next_url' = None

NextEnumerate ==
    \/ FetchCatalogPage
    \/ FetchPageFails

\* Every request returns: spotify_api_request awaits the response and yields Ok or Err.
SpecEnumerate == InitEnumerate /\ [][NextEnumerate]_vars /\ WF_vars(NextEnumerate)

\* The loop of rip_playlist at its first entry, for a playlist of two entries
\* (the same track twice, or two tracks).
InitTracks ==
    /\ pc = "metadata"
    /\ playlist_uri = CanonicalPrefix \o << "X" >>
    /\ uri_arg = None
    /\ dirs = { DirName(<< "X" >>, 0) }
    /\ dirs_before = {}
    /\ download_dir = Some(DirName(<< "X" >>, 0))
    /\ next_url = None
    /\ pages = << >>
    /\ page_requests = 0
    /\ page_failed = FALSE
    /\ track_ids \in { << "a", "a" >>, << "a", "b" >> }
    /\ cur = 1
    /\ metadata = None
    /\ audio_file = None
    /\ mp3_path = None
    /\ temp_files = {}
    /\ files = << >>
    /\ progress = 0
    /\ hist = << BlankHist, BlankHist >>
    /\ fetched_playable = None
    /\ acq = None
    /\ tag_env = None
    /\ delays = 0
    /\ top_error = ""
    /\ exit_status = None

\* get_track_metadata answered for a track of an album.
FetchAlbumTrackMetadata == FetchMetadataOf(AlbumTrackMetadatas)

NextTracks ==
    \/ FetchAlbumTrackMetadata
    \/ Acquire
    \/ TranscodeExitsNonZero
    \/ Transcode
    \/ Tag
    \/ Delay

SpecTracks == InitTracks /\ [][NextTracks]_vars

----------------------------------------------------------------------------
(* download_track_audio step by step: one action per await point *)

\* What has been observed of the running download_track_audio call.
\*   key:      "unrequested", "some" (request Ok) or "none" (request Err)
\*   tempfile: "unrequested", "create_failed", "dropped" (created, then removed when
\*             the NamedTempFile is dropped after a copy or keep error) or "kept"
Acquisition(available, format) ==
    [ available |-> available, format |-> format, opened |-> FALSE, key |-> "unrequested",
      warned |-> None, tempfile |-> "unrequested" ]

\* Lines 326-338: from_base62, Track::get, then the find_map over the ranked formats.
DownloadLookup ==
    /\ pc = "acquire"
    /\ \/ /\ \E failure \in { "Invalid track identifier", "Unable to fetch track metadata" } :
                 EndTrack(Started("acquire"), "failed")
          /\ UNCHANGED acq
       \/ \E available \in SUBSET AudioFileFormats :
              LET format == FindFormat(FormatRanking, available)
              IN  /\ acq' = Some(Acquisition(available, format))
                  /\ IF format = None
                     THEN EndTrack(Started("acquire"), "failed")
                     ELSE /\ hist' = [ hist EXCEPT ![cur] = Started("acquire") ]
                          /\ pc' = "acquire_open"
                          /\ UNCHANGED << cur, metadata, audio_file, mp3_path, progress >>
    /\ UNCHANGED << playlist_uri, uri_arg, setup_vars, temp_files, files, fetched_playable,
                    tag_env, delays, top_error, exit_status >>

\* Lines 342-344: SpotifyAudioFile::open.
DownloadOpen ==
    /\ pc = "acquire_open"
    /\ \E opened \in BOOLEAN :
           IF opened
           THEN /\ acq' = Some([ Unwrap(acq) EXCEPT !.opened = TRUE ])
                /\ pc' = "acquire_key"
                /\ UNCHANGED << cur, metadata, audio_file, mp3_path, progress, hist >>
           ELSE /\ EndTrack(hist[cur], "failed")
                /\ UNCHANGED acq
    /\ UNCHANGED << playlist_uri, uri_arg, setup_vars, temp_files, files, fetched_playable,
                    tag_env, delays, top_error, exit_status >>

\* What NamedTempFile::new, io::copy and temp.keep can do.
TempFileOutcomes == { "create_failed", "copy_failed", "keep_failed", "kept" }

\* A variant in which a failed key request fails the track.
DownloadKeyAndCopy_KeyRequired ==
    /\ pc = "acquire_key"
    /\ \E key_ok \in BOOLEAN, io \in TempFileOutcomes :
           LET tmp == Cardinality(temp_files) + 1
           IN  /\ acq' = Some([ Unwrap(acq) EXCEPT
                                  !.key = IF key_ok THEN "some" ELSE "none",
                                  !.warned = IF key_ok THEN None ELSE Some(track_ids[cur]),
                                  !.tempfile = IF ~key_ok THEN "unrequested"
                                               ELSE IF io = "kept" THEN "kept"
                                               ELSE IF io = "create_failed" THEN io
                                               ELSE "dropped" ])
               /\ IF key_ok /\ io = "kept"
                  THEN /\ temp_files' = temp_files \cup { tmp }
                       /\ audio_file' = Some(tmp)
                       /\ pc' = "transcode"
                       /\ UNCHANGED << cur, metadata, mp3_path, progress, hist >>
                  ELSE /\ EndTrack(hist[cur], "failed")
                       /\ UNCHANGED temp_files
    /\ UNCHANGED << playlist_uri, uri_arg, setup_vars, files, fetched_playable,
                    tag_env, delays, top_error, exit_status >>

\* Lines 346-359: the key request (an Err is logged with warn! and leaves key None), then
\* AudioDecrypt::new(key, encrypted), NamedTempFile::new, io::copy and temp.keep.
DownloadKeyAndCopy ==
    /\ pc = "acquire_key"
    /\ \E key_ok \in BOOLEAN, io \in TempFileOutcomes :
           LET tmp == Cardinality(temp_files) + 1
           IN  /\ acq' = Some([ Unwrap(acq) EXCEPT
                                  !.key = IF key_ok THEN "some" ELSE "none",
                                  !.warned = IF key_ok THEN None ELSE Some(track_ids[cur]),
                                  !.tempfile = IF io = "kept" THEN "kept"
                                               ELSE IF io = "create_failed" THEN io
                                               ELSE "dropped" ])
               /\ IF io = "kept"
                  THEN /\ temp_files' = temp_files \cup { tmp }
                       /\ audio_file' = Some(tmp)
                       /\ pc' = "transcode"
                       /\ UNCHANGED << cur, metadata, mp3_path, progress, hist >>
                  ELSE /\ EndTrack(hist[cur], "failed")
                       /\ UNCHANGED temp_files
    /\ UNCHANGED << playlist_uri, uri_arg, setup_vars, files, fetched_playable,
                    tag_env, delays, top_error, exit_status >>

\* rip_track at line 285, for the only track of a playlist: its metadata has been fetched
\* and the track is not marked unplayable.
InitAcquire ==
    /\ pc = "acquire"
    /\ playlist_uri = CanonicalPrefix \o << "X" >>
    /\ uri_arg = None
    /\ dirs = { DirName(<< "X" >>, 0) }
    /\ dirs_before = {}
    /\ download_dir = Some(DirName(<< "X" >>, 0))
    /\ next_url = None
    /\ pages = << >>
    /\ page_requests = 0
    /\ page_failed = FALSE
    /\ track_ids \in { << id >> : id \in TrackIdSet }
    /\ cur = 1
    /\ metadata \in { Some(md) : md \in { m \in TrackMetadatas : ~IsUnplayable(m) } }
    /\ audio_file = None
    /\ mp3_path = None
    /\ temp_files = {}
    /\ files = << >>
    /\ progress = 0
    /\ hist = << [ BlankHist EXCEPT !.stages = << "metadata" >> ] >>
    /\ fetched_playable = Some(Unwrap(metadata).is_playable)
    /\ acq = None
    /\ tag_env = None
    /\ delays = 1
    /\ top_error = ""
    /\ exit_status = None

NextAcquire ==
    \/ DownloadLookup
    \/ DownloadOpen
    \/ DownloadKeyAndCopy
    \/ TranscodeFails
    \/ TranscodeExitsNonZero
    \/ Transcode
    \/ TagPanics
    \/ Tag
    \/ Delay

SpecAcquire == InitAcquire /\ [][NextAcquire]_vars

----------------------------------------------------------------------------
(* Properties *)

Finished(i) == hist[i].outcome # "none"
FinishedCount == Cardinality({ i \in DOMAIN hist : Finished(i) })
OwnedFiles(i) == { p \in DOMAIN files : files[p].owner = i }
StagePcs == { "metadata", "acquire", "transcode", "tag" }
SetupPcs == { "resolve", "allocate", "enumerate", "exited" }
RanStage(i, stage) == \E k \in 1 .. Len(hist[i].stages) : hist[i].stages[k] = stage

\* Whether an entry carries a track with an id.
HasId(item) == item.track # None /\ Unwrap(item.track).id # None

\* The ids of the entries of one page that carry a track with an id, in page order.
IdsOfPage(page) ==
    LET with_id == SelectSeq(page.items, HasId)
    IN  [ k \in 1 .. Len(with_id) |-> Unwrap(Unwrap(with_id[k].track).id) ]

\* The concatenation of IdsOfPage over the pages, first page first.
RECURSIVE FlattenIds(_)
FlattenIds(ps) == IF ps = << >> THEN << >> ELSE IdsOfPage(Head(ps)) \o FlattenIds(Tail(ps))

\* C1: once enumeration has succeeded, whatever stage of whatever track fails,
\* the run ends only in Done with exit status 0 and with every enumerated
\* track processed.
C1_FailureIsolation ==
    (pc \notin SetupPcs /\ exit_status # None)
        => /\ pc = "done"
           /\ exit_status = Some(0)
           /\ \A i \in 1 .. Len(track_ids) : Finished(i)

\* C2: a track whose metadata says is_playable = Some(false) ends as skipped
\* after the metadata stage alone: no acquisition, no transcode, no tag, no
\* output file, no temporary file, no error logged; a track whose flag is
\* Some(true) or absent is not skipped and its next stage is acquire.
C2_SkipPolicy ==
    /\ \A i \in DOMAIN hist :
           hist[i].outcome = "skipped"
               => /\ hist[i].stages = << "metadata" >>
                  /\ ~hist[i].logged
                  /\ OwnedFiles(i) = {}
    /\ fetched_playable = Some(Some(FALSE))
           => /\ pc = "delay"
              /\ hist[cur].outcome = "skipped"
              /\ metadata = None /\ audio_file = None /\ mp3_path = None
    /\ fetched_playable \in { Some(Some(TRUE)), Some(None) }
           => /\ hist[cur].outcome # "skipped"
              /\ pc = "acquire" \/ (Len(hist[cur].stages) >= 2 /\ hist[cur].stages[2] = "acquire")
    /\ Cardinality(temp_files) <= Cardinality({ i \in DOMAIN hist : RanStage(i, "acquire") })

C2_Witness ==
    /\ pc = "delay"
    /\ cur = 2
    /\ fetched_playable = Some(Some(FALSE))
    /\ hist[2].outcome = "skipped"
    /\ hist[1].outcome = "ok"

\* C3: a failed setup step (resolution, allocation, enumeration) ends the run
\* at that step: the error is logged by main, the exit status is 1, no later
\* setup step has run and no track was processed; an invalid reference creates
\* no directory and issues no catalog request.
C3_SetupFailuresFatal ==
    /\ (pc # "resolve" /\ ~normalise_playlist_uri(playlist_uri).ok) => top_error = "resolve"
    /\ pc = "exited" <=> top_error # ""
    /\ page_failed => top_error = "enumerate"
    /\ top_error # ""
           => /\ exit_status = Some(1)
              /\ hist = << >> /\ cur = 0 /\ progress = 0 /\ delays = 0
              /\ files = << >> /\ temp_files = {}
              /\ metadata = None /\ audio_file = None /\ mp3_path = None
    /\ top_error \in { "resolve", "allocate" }
           => /\ download_dir = None
              /\ dirs = dirs_before
              /\ next_url = None /\ pages = << >> /\ ~page_failed
    /\ top_error = "resolve" => ~normalise_playlist_uri(playlist_uri).ok
    /\ top_error = "enumerate" => download_dir # None /\ page_failed

C3_Witness ==
    /\ pc = "exited"
    /\ top_error = "resolve"
    /\ exit_status = Some(1)
    /\ dirs_before # {}

\* C4: at Done no output file belongs to a track whose processing failed.
C4_FailedTrackAbsent ==
    pc = "done" => \A i \in DOMAIN hist : hist[i].outcome = "failed" => OwnedFiles(i) = {}

\* C5: when the album has an image and its fetch fails (send error, non-success
\* status or body read error) while the tag write itself works, the track
\* succeeds and its file carries a tag without a picture.
C5_ArtFailureNeverFailsTrack ==
    ( /\ pc = "delay"
      /\ tag_env # None
      /\ Unwrap(tag_env).art \in { "send_error", "bad_status", "body_error" }
      /\ Unwrap(tag_env).write_ok )
        => /\ hist[cur].outcome = "ok"
           /\ \E p \in OwnedFiles(cur) :
                  files[p].tag # None /\ ~Unwrap(files[p].tag).picture

\* C6: no release date aborts the track or the run: the tag stage never panics.
C6_YearParsingNeverAborts ==
    /\ pc # "panicked"
    /\ exit_status # Some(101)

\* C7: the Vec built by fetch_playlist_tracks is the concatenation, in page
\* order and within-page order, of the ids of the entries that carry a track
\* with an id, both while pages are being fetched and when it is returned.
C7_EnumerationResult ==
    pc \in { "enumerate", "enumerated" } => track_ids = FlattenIds(pages)

C7_Witness ==
    /\ pc = "enumerated"
    /\ Len(pages) = 2
    /\ pages[1].items = << TrackItem("b"), NoTrackItem >>
    /\ pages[2].items = << TrackItem("a") >>
    /\ track_ids = << "b", "a" >>

\* C8: when a page request fails, the run ends with the enumeration error and
\* no id collected from earlier pages is returned or processed.
C8_EnumerationAtomic ==
    page_failed
        => /\ pc = "exited"
           /\ top_error = "enumerate"
           /\ exit_status = Some(1)
           /\ track_ids = << >>
           /\ hist = << >> /\ cur = 0
           /\ files = << >> /\ temp_files = {}

C8_Witness ==
    /\ page_failed
    /\ pc = "exited"
    /\ Len(pages) >= 1
    /\ FlattenIds(pages) # << >>

\* C9: tracks are processed one at a time in enumeration order; a track's
\* first stage starts only when every earlier track has finished and exactly
\* one sleep per finished track has completed.
C9_SequentialThrottled ==
    /\ delays = IF pc = "delay" THEN FinishedCount - 1 ELSE FinishedCount
    /\ \A i \in DOMAIN hist :
           hist[i].stages # << >>
               => /\ i <= cur
                  /\ \A j \in 1 .. i - 1 : Finished(j)
                  /\ delays >= i - 1
    /\ \A i \in DOMAIN hist :
           (hist[i].stages # << >> /\ ~Finished(i))
               => i = cur /\ pc \in StagePcs \cup { "panicked" }
    /\ pc \in StagePcs
           => /\ cur \in DOMAIN hist
              /\ ~Finished(cur)
              /\ delays = cur - 1
    /\ pc = "done" => delays = Len(track_ids)

C9_Witness ==
    /\ pc = "acquire"
    /\ cur = 2
    /\ hist[1].outcome = "failed"
    /\ delays = 1

\* C10: the progress counter is 0 before any track has finished, equals the
\* number of finished tracks in every state, equals the number of enumerated
\* ids at Done, and each step leaves it unchanged or adds exactly one.
C10_ProgressCounter ==
    /\ [](/\ progress = FinishedCount
          /\ (pc \in SetupPcs \cup { "enumerated" } => progress = 0)
          /\ (pc = "done" => progress = Len(track_ids)))
    /\ [][progress' = progress \/ progress' = progress + 1]_vars

C10_Witness ==
    /\ pc = "done"
    /\ progress = 2
    /\ hist[1].outcome = "failed"
    /\ hist[2].outcome = "skipped"


----------------------------------------------------------------------------
(* Unique Path Allocator *)

\* The least n for which base (n) (base itself for n = 0) is not in ds.
LeastFree(base, ds) ==
    CHOOSE n \in 0 .. Cardinality(ds) :
        /\ DirName(base, n) \notin ds
        /\ \A k \in 0 .. n - 1 : DirName(base, k) \in ds

\* C11: make_unique_directory returns the target itself when it does not exist, and base (N)
\* when base, base (1), ..., base (N - 1) exist; the directory it returns did not exist before
\* the call and is the only one created; no directory that existed is removed or returned.
C11_UniquePathAllocator ==
    /\ dirs_before \subseteq dirs
    /\ pc = "allocate" => dirs = dirs_before /\ download_dir = None
    /\ (pc = "exited" /\ top_error = "allocate") => dirs = dirs_before /\ download_dir = None
    /\ pc = "enumerate" =>
            /\ download_dir # None
            /\ LET d == Unwrap(download_dir)
                    base == playlist_id_of(playlist_uri)
               IN  /\ d \notin dirs_before
                   /\ dirs = dirs_before \cup { d }
                   /\ d = DirName(base, LeastFree(base, dirs_before))
                   /\ DirName(base, 0) \notin dirs_before => d = DirName(base, 0)

\* base, base (1) and base (2) existed, and base (3) was created and returned.
C11_Witness ==
    /\ pc = "enumerate"
    /\ { DirName(<< "X" >>, k) : k \in 0 .. 2 } \subseteq dirs_before
    /\ download_dir = Some(DirName(<< "X" >>, 3))

----------------------------------------------------------------------------
(* URI Resolver *)

\* normalise_playlist_uri has returned Ok.
Resolved == pc = "allocate" /\ uri_arg # None

\* normalise_playlist_uri has returned Err and main has reported it.
Rejected == pc = "exited" /\ top_error = "resolve" /\ uri_arg # None

\* The input is a URL whose host is the provider's web domain and whose path has at least
\* two segments, the first being "playlist".
IsPlaylistWebLink(input) ==
    LET url == UrlParse(input)
    IN  /\ url.ok
        /\ url.domain = ProviderDomain
        /\ Len(url.path_segments) >= 2
        /\ url.path_segments[1] = << "playlist" >>

\* C12: an input that starts with spotify:playlist: is returned unchanged, and so what a
\* successful resolution returned (from a canonical input or a web link) resolves to itself.
C12_ResolverIdempotent ==
    Resolved =>
        /\ StartsWith(Unwrap(uri_arg), CanonicalPrefix) => playlist_uri = Unwrap(uri_arg)
        /\ normalise_playlist_uri(playlist_uri) = [ ok |-> TRUE, value |-> playlist_uri ]

\* A canonical input with a colon inside its id came back unchanged.
C12_Witness ==
    /\ Resolved
    /\ Unwrap(uri_arg) = CanonicalPrefix \o << "X", ":" >>
    /\ playlist_uri = Unwrap(uri_arg)

\* C13: for a URL of the provider's web domain whose path has at least two segments, the
\* first being "playlist", the resolver returns spotify:playlist:<second segment>, whatever
\* further segments, query or fragment follow (the segments are those of the parsed URL, in
\* which "." and ".." have been resolved).
C13_WebLinkResolution ==
    (pc # "resolve" /\ uri_arg # None /\ IsPlaylistWebLink(Unwrap(uri_arg))) =>
        /\ Resolved
        /\ playlist_uri = CanonicalPrefix \o UrlParse(Unwrap(uri_arg)).path_segments[2]

\* A web link with a third path segment and a query resolved to its second segment.
C13_Witness ==
    /\ Resolved
    /\ Unwrap(uri_arg) = << "https", ":", "//", "open.spotify.com", "/", "playlist", "/", "X",
                            "/", "playlist", "?", "si" >>
    /\ playlist_uri = CanonicalPrefix \o << "X" >>

\* C14: an input that neither starts with spotify:playlist: nor is such a web link is
\* rejected: no URI is returned, the error names the input, and the run ends there.
C14_InvalidRejected ==
    (pc # "resolve" /\ uri_arg # None
        /\ ~StartsWith(Unwrap(uri_arg), CanonicalPrefix)
        /\ ~IsPlaylistWebLink(Unwrap(uri_arg))) =>
        /\ Rejected
        /\ playlist_uri = Unwrap(uri_arg)
        /\ normalise_playlist_uri(playlist_uri)
               = [ ok |-> FALSE, error |-> << "Invalid Spotify playlist URI: " >> \o playlist_uri ]
        /\ exit_status = Some(1)
        /\ download_dir = None

\* A playlist link of another host was rejected.
C14_Witness ==
    /\ Rejected
    /\ Unwrap(uri_arg) = << "https", ":", "//", "example.com", "/", "playlist", "/", "X" >>

----------------------------------------------------------------------------
(* Audio acquisition *)

\* The quality tiers, best first: 1 is OGG_VORBIS_320, 2 is OGG_VORBIS_160, 3 is OGG_VORBIS_96.
TierOf(format) ==
    IF format = "OGG_VORBIS_320" THEN 1
    ELSE IF format = "OGG_VORBIS_160" THEN 2
    ELSE IF format = "OGG_VORBIS_96" THEN 3
    ELSE 0

Tiered(available) == { f \in available : TierOf(f) # 0 }

\* The current track failed in download_track_audio.
FailedInAcquire ==
    hist[cur] = [ stages |-> << "metadata", "acquire" >>, outcome |-> "failed", logged |-> TRUE ]

\* C15: download_track_audio selects the best tier that has a file (a lower tier only when
\* no higher one has a file); when none of the three tiers has a file the track fails there,
\* and no stream was opened and no temporary file created.
C15_SourceSelection ==
    acq # None =>
        LET a == Unwrap(acq)
        IN  /\ Tiered(a.available) # {} =>
                   /\ a.format # None
                   /\ Unwrap(a.format) \in Tiered(a.available)
                   /\ \A f \in Tiered(a.available) : TierOf(Unwrap(a.format)) <= TierOf(f)
            /\ Tiered(a.available) = {} =>
                   /\ a.format = None
                   /\ FailedInAcquire
                   /\ pc = "delay"
                   /\ ~a.opened
                   /\ a.tempfile = "unrequested"
                   /\ temp_files = {}
                   /\ audio_file = None

\* OGG_VORBIS_160 was chosen because 320 had no file although 96 and an unranked format had,
\* and the stream was persisted.
C15_Witness ==
    /\ acq # None
    /\ Unwrap(acq).available = { "OGG_VORBIS_160", "OGG_VORBIS_96", "MP3_320" }
    /\ Unwrap(acq).format = Some("OGG_VORBIS_160")
    /\ pc = "transcode"

\* C16: a failed key request does not fail the track: a warning naming the track is logged,
\* the stream is copied with no key to the temporary file, and unless creating, writing or
\* keeping that file fails the track goes on to transcoding (and from there can be tagged).
C16_KeyFallback ==
    (acq # None /\ Unwrap(acq).key = "none") =>
        LET a == Unwrap(acq)
        IN  /\ a.warned = Some(track_ids[cur])
            /\ a.opened
            /\ a.tempfile # "unrequested"
            /\ a.tempfile = "kept" =>
                   /\ ~FailedInAcquire
                   /\ Cardinality(temp_files) = 1
                   /\ pc = "transcode" \/ RanStage(cur, "transcode")
            /\ a.tempfile # "kept" => FailedInAcquire /\ temp_files = {}

\* A track whose key request failed was transcoded and tagged.
C16_Witness ==
    /\ acq # None
    /\ Unwrap(acq).key = "none"
    /\ hist[cur].stages = Stages
    /\ hist[cur].outcome = "ok"

----------------------------------------------------------------------------
(* Stage pipeline *)

IsPrefix(s, t) == Len(s) <= Len(t) /\ s = SubSeq(t, 1, Len(s))

\* C17: the stages of an entry run in the order metadata, acquire, transcode, tag, each at
\* most once; a stage is started only for the entry the loop is at, only when it is the next
\* one after the stages that entry has completed, and never once the entry has failed, been
\* skipped or finished.
C17_StagePipeline ==
    /\ [](\A i \in DOMAIN hist :
             /\ IsPrefix(hist[i].stages, Stages)
             /\ i > cur => hist[i] = BlankHist
             /\ (i < cur \/ (i = cur /\ pc \in { "delay", "done" })) => Finished(i))
    /\ [][\A i \in DOMAIN hist :
             /\ i \in DOMAIN hist'
             /\ Finished(i) => hist'[i] = hist[i]
             /\ hist'[i].stages # hist[i].stages =>
                    /\ i = cur
                    /\ Len(hist[i].stages) < Len(Stages)
                    /\ pc = Stages[Len(hist[i].stages) + 1]
                    /\ hist'[i].stages = Append(hist[i].stages, pc)]_vars

\* The first entry failed in transcoding and never reached tagging; the second ran all four.
C17_Witness ==
    /\ pc = "done"
    /\ Len(hist) = 2
    /\ hist[1].stages = << "metadata", "acquire", "transcode" >>
    /\ hist[1].outcome = "failed"
    /\ hist[2].stages = Stages
    /\ hist[2].outcome = "ok"

----------------------------------------------------------------------------
(* Enumeration loop *)

----------------------------------------------------------------------------
(* Output paths *)

\* The values the claim says the output path is made of, besides the download directory.
PathFields(md) ==
    << IF md.album_artists = << >> THEN "Unknown Artist" ELSE md.album_artists[1],
       md.album_name, md.track_number, md.name >>

\* C19: the output path consists of the download directory, the first album artist (or
\* Unknown Artist), the album name, the track number and the track name, so that metadata
\* agreeing on these (whatever the disc number and the track id) gives the same path; a
\* successful transcode (over)writes the file at that path and leaves the other files alone,
\* so there are never more output files than transcoded entries, and there can be fewer.
C19_OutputPath ==
    /\ [](pc = "tag" =>
             /\ mp3_path # None
             /\ Unwrap(mp3_path) = << Unwrap(download_dir) >> \o PathFields(Unwrap(metadata))
             /\ \A other \in AlbumTrackMetadatas :
                    PathFields(other) = PathFields(Unwrap(metadata)) =>
                        TrackPath(Unwrap(download_dir), other) = Unwrap(mp3_path)
             /\ Unwrap(mp3_path) \in DOMAIN files
             /\ files[Unwrap(mp3_path)].owner = cur)
    /\ [](Cardinality(DOMAIN files)
             <= Cardinality({ i \in DOMAIN hist : RanStage(i, "transcode") }))
    /\ [][(pc = "transcode" /\ pc' = "tag") =>
             /\ DOMAIN files' = DOMAIN files \cup { Unwrap(mp3_path') }
             /\ files'[Unwrap(mp3_path')] = [ owner |-> cur, kind |-> "mp3", tag |-> None ]
             /\ \A q \in DOMAIN files \ { Unwrap(mp3_path') } : files'[q] = files[q]]_vars

\* Two entries with different track ids both succeeded, and the only output file is the
\* second entry's.
C19_Witness ==
    /\ pc = "done"
    /\ track_ids[1] # track_ids[2]
    /\ hist[1].outcome = "ok"
    /\ hist[2].outcome = "ok"
    /\ Cardinality(DOMAIN files) = 1
    /\ \A q \in DOMAIN files :
           /\ files[q].owner = 2
           /\ files[q].tag # None
           /\ Unwrap(files[q].tag).track = track_ids[2]

----------------------------------------------------------------------------
(* Temporary audio files *)

\* download_track_audio returned Ok for entry i.
Acquired(i) == RanStage(i, "transcode") \/ (i = cur /\ pc = "transcode")

\* C20: every successful download_track_audio has persisted one temporary file, a failed one
\* none, and no step removes a persisted file: their number never decreases and is always,
\* and so at the end of the run, the number of entries whose acquisition succeeded.
C20_TempFilesKept ==
    /\ [](/\ Cardinality(temp_files) = Cardinality({ i \in DOMAIN hist : Acquired(i) })
          /\ audio_file # None => Unwrap(audio_file) \in temp_files)
    /\ [][/\ temp_files \subseteq temp_files'
          /\ temp_files' # temp_files =>
                 /\ pc = "acquire"
                 /\ pc' = "transcode"
                 /\ Cardinality(temp_files') = Cardinality(temp_files) + 1]_vars

\* At the end of the run two temporary files remain: one of an entry that failed in
\* transcoding and one of an entry that was tagged.
C20_Witness ==
    /\ pc = "done"
    /\ Len(hist) = 2
    /\ hist[1].stages = << "metadata", "acquire", "transcode" >>
    /\ hist[1].outcome = "failed"
    /\ hist[2].outcome = "ok"
    /\ Cardinality(temp_files) = 2

====
